---- MODULE Spec2Model ----
(***************************************************************************)
(* Model of the GAV mediator of src/api/main.py: the wrappers, mediador(), *)
(* the single-slot cache get_cached_vista_global() and handler.do_GET.     *)
(*                                                                         *)
(* Conventions.  A text (a column label, a production cell) is a sequence  *)
(* of one-character strings.  A nullable number or date is <<>> (NaN/NaT)  *)
(* or a one-element / date tuple; a nullable name is the string "NaN",     *)
(* which is what read_csv makes of an empty text cell.  Climate values are  *)
(* integers in tenths, prices in hundredths, production quantities in      *)
(* units of 10^-DecMax.  Accented names are written without the accent.    *)
(***************************************************************************)
EXTENDS Integers, Sequences, FiniteSets, TLC

\* --------------------------------------------------------------------------
\* Bounds of the model
\* --------------------------------------------------------------------------
MaxReloj == 15        \* the clock stops here
RelojCorto == 7       \* the same, for the specifications with many snapshots
MaxLecturas == 2      \* readings per climate table (SpecClima)
MaxCelda == 3         \* characters of a generated production cell (SpecProd)
MaxFilasProd == 2     \* rows of a production table (SpecProd)
MaxPrecios == 2       \* rows of a price table (SpecPrecios)

\* CACHE_TTL_SECONDS = int(os.getenv("CACHE_TTL_SECONDS", "3600")): taken
\* here with the environment setting it to 8 seconds.
CACHE_TTL_SECONDS == 8

\* --------------------------------------------------------------------------
\* Generic helpers
\* --------------------------------------------------------------------------
NaN == <<>>
NaT == <<>>
NaNStr == "NaN"
None == <<>>

Min(a, b) == IF a <= b THEN a ELSE b

RECURSIVE SumSeq(_)
SumSeq(s) == IF s = <<>> THEN 0 ELSE Head(s) + SumSeq(Tail(s))

RECURSIVE Flatten(_)
Flatten(ss) == IF ss = <<>> THEN <<>> ELSE Head(ss) \o Flatten(Tail(ss))

\* all sequences over S of length at most n
SeqHasta(S, n) == UNION {[1..k -> S] : k \in 0..n}

Rango(s) == {s[k] : k \in 1..Len(s)}

\* lexicographic strict order on integer tuples of equal length
RECURSIVE LexLt(_, _)
LexLt(a, b) ==
    IF a = <<>> THEN FALSE
    ELSE IF Head(a) # Head(b) THEN Head(a) < Head(b)
    ELSE LexLt(Tail(a), Tail(b))

\* stable insertion sort of a sequence of <<key, row>> pairs by key
RECURSIVE Insertar(_, _)
Insertar(x, s) ==
    IF s = <<>> THEN <<x>>
    ELSE IF ~LexLt(Head(s)[1], x[1]) THEN <<x>> \o s
    ELSE <<Head(s)>> \o Insertar(x, Tail(s))

RECURSIVE OrdenarPares(_)
OrdenarPares(s) ==
    IF s = <<>> THEN <<>>
    ELSE Insertar(Head(s), OrdenarPares(Tail(s)))

\* the rows of a sequence of <<key, row>> pairs in ascending key order, stable
Ordenados(pares) ==
    LET ord == OrdenarPares(pares)
    IN  [k \in 1..Len(pares) |-> ord[k][2]]

\* numpy/pandas round(): nearest, ties to even; num/den with den > 0, num >= 0
RoundHalfEven(num, den) ==
    LET q == num \div den
        r == num % den
    IN  IF 2 * r < den THEN q
        ELSE IF 2 * r > den THEN q + 1
        ELSE IF q % 2 = 0 THEN q ELSE q + 1

\* --------------------------------------------------------------------------
\* 1. Sources and mappings
\* --------------------------------------------------------------------------
DATA_SOURCES ==
    << "INUMET_temperatura", "INUMET_humedad", "INUMET_precipitaciones",
       "INUMET_estaciones", "MEF_precios", "MEF_establecimientos",
       "UAM_produccion" >>

DEPARTAMENTOS_URUGUAY ==
    { "Artigas", "Canelones", "Cerro Largo", "Colonia", "Durazno",
      "Flores", "Florida", "Lavalleja", "Maldonado", "Montevideo",
      "Paysandu", "Rio Negro", "Rivera", "Rocha", "Salto",
      "San Jose", "Soriano", "Tacuarembo", "Treinta y Tres" }

\* the items of the dict MESES_MAP_ABR: <<key, month number>>
MESES_MAP_ABR ==
    { << <<"e","n","e">>, 1 >>,  << <<"f","e","b">>, 2 >>,
      << <<"m","a","r">>, 3 >>,  << <<"a","b","r">>, 4 >>,
      << <<"m","a","y">>, 5 >>,  << <<"j","u","n">>, 6 >>,
      << <<"j","u","l">>, 7 >>,  << <<"a","g","o">>, 8 >>,
      << <<"s","e","p","t">>, 9 >>, << <<"o","c","t">>, 10 >>,
      << <<"n","o","v">>, 11 >>, << <<"d","i","c">>, 12 >> }

\* Series.map(MESES_MAP_ABR): the value of the key, NaN for a missing key
MapMes(k) ==
    IF \E it \in MESES_MAP_ABR : it[1] = k
    THEN << (CHOOSE it \in MESES_MAP_ABR : it[1] = k)[2] >>
    ELSE NaN

Digitos == <<"0", "1", "2", "3", "4", "5", "6", "7", "8", "9">>
EsDigito(c) == \E d \in 1..10 : Digitos[d] = c
DigitVal(c) == (CHOOSE d \in 1..10 : Digitos[d] = c) - 1

RECURSIVE NumVal(_)
NumVal(s) ==
    IF s = <<>> THEN 0
    ELSE 10 * NumVal(SubSeq(s, 1, Len(s) - 1)) + DigitVal(s[Len(s)])

TodosDigitos(s) == \A k \in 1..Len(s) : EsDigito(s[k])

\* The order of Python str (code points) on the names the model uses, NaN
\* last: what groupby and an outer merge sort their name keys by.
NombresOrdenados ==
    << "Artigas", "Canelones", "Cerro Largo", "Colonia", "Durazno",
       "Exterior", "Flores", "Florida", "Lavalleja", "Maldonado",
       "Montevideo", "Paysandu", "Rivera", "Rocha", "Rio Negro", "Salto",
       "San Jose", "Soriano", "Tacuarembo", "Treinta y Tres", NaNStr >>
RangoNombre(n) == CHOOSE k \in 1..Len(NombresOrdenados) : NombresOrdenados[k] = n

\* --------------------------------------------------------------------------
\* 2. Wrappers
\* --------------------------------------------------------------------------
\* wrapper_fuentes: the rows of the source; an empty table on any failure
\* (a failed source is an empty table in the snapshot).
wrapper_fuentes(tabla) == tabla

\* wrapper_web_scraping_estaciones: the scraped stations filtered to the 19
\* departments, as (estacion_id, departamento).
EnUruguay(e) == e.departamento \in DEPARTAMENTOS_URUGUAY
wrapper_web_scraping_estaciones(tabla) ==
    LET df_st == SelectSeq(tabla, EnUruguay)
    IN  [k \in 1..Len(df_st) |->
            [estacion_id |-> df_st[k].nombreestacion,
             departamento |-> df_st[k].departamento]]

\* DataFrame.empty: no rows (a table of the production source: no data rows)
Vacia(nombre, df) ==
    IF nombre = "UAM_produccion" THEN df.filas = <<>> ELSE df = <<>>

\* --------------------------------------------------------------------------
\* 3.2 Climate (INUMET)
\* --------------------------------------------------------------------------
\* pd.to_datetime(..., errors='coerce') of a date text <<y, m, d>>; <<>> is an
\* empty cell; a text that is no calendar date gives NaT.
EsFecha(f) == Len(f) = 3 /\ f[2] \in 1..12 /\ f[3] \in 1..31
to_datetime_coerce(f) == IF EsFecha(f) THEN f ELSE NaT

\* Series.dt.to_period('M')
to_period_M(f) == IF f = NaT THEN NaT ELSE <<f[1], f[2]>>

ParseFechas(df) ==
    [k \in 1..Len(df) |-> [df[k] EXCEPT !.fecha = to_datetime_coerce(@)]]

Clave(r) == <<r.fecha, r.estacion_id>>

\* df_temp.merge(df_hum[[fecha, estacion_id, humedad_pje]], how='outer')
MergeTempHum(df_temp, df_hum) ==
    LET Fila(t, h) == [fecha |-> t.fecha, estacion_id |-> t.estacion_id,
                       temperatura_c |-> <<t.valor>>, humedad_pje |-> h]
        Izq(t) == LET Igual(h) == Clave(h) = Clave(t)
                      hs == SelectSeq(df_hum, Igual)
                  IN  IF hs = <<>> THEN << Fila(t, NaN) >>
                      ELSE [j \in 1..Len(hs) |-> Fila(t, <<hs[j].valor>>)]
        SinIzq(h) == \A k \in 1..Len(df_temp) : Clave(df_temp[k]) # Clave(h)
        hsolo == SelectSeq(df_hum, SinIzq)
    IN  Flatten([k \in 1..Len(df_temp) |-> Izq(df_temp[k])])
        \o [j \in 1..Len(hsolo) |->
               [fecha |-> hsolo[j].fecha, estacion_id |-> hsolo[j].estacion_id,
                temperatura_c |-> NaN, humedad_pje |-> <<hsolo[j].valor>>]]

\* df_clima_horario.merge(df_precip[[..., precipitacion_mm]], how='outer')
MergePrecip(df, df_precip) ==
    LET Fila(r, p) == [fecha |-> r.fecha, estacion_id |-> r.estacion_id,
                       temperatura_c |-> r.temperatura_c,
                       humedad_pje |-> r.humedad_pje, precipitacion_mm |-> p]
        Izq(r) == LET Igual(p) == Clave(p) = Clave(r)
                      ps == SelectSeq(df_precip, Igual)
                  IN  IF ps = <<>> THEN << Fila(r, NaN) >>
                      ELSE [j \in 1..Len(ps) |-> Fila(r, <<ps[j].valor>>)]
        SinIzq(p) == \A k \in 1..Len(df) : Clave(df[k]) # Clave(p)
        psolo == SelectSeq(df_precip, SinIzq)
    IN  Flatten([k \in 1..Len(df) |-> Izq(df[k])])
        \o [j \in 1..Len(psolo) |->
               [fecha |-> psolo[j].fecha, estacion_id |-> psolo[j].estacion_id,
                temperatura_c |-> NaN, humedad_pje |-> NaN,
                precipitacion_mm |-> <<psolo[j].valor>>]]

\* merge(df_estaciones[[estacion_id, departamento]], how='inner'), then the
\* month key Mes_anio = fecha.dt.to_period('M')
MergeEstaciones(df, df_estaciones) ==
    LET Izq(r) == LET Igual(e) == e.estacion_id = r.estacion_id
                      es == SelectSeq(df_estaciones, Igual)
                  IN  [j \in 1..Len(es) |->
                         [Mes_anio |-> to_period_M(r.fecha),
                          departamento |-> es[j].departamento,
                          temperatura_c |-> r.temperatura_c,
                          humedad_pje |-> r.humedad_pje,
                          precipitacion_mm |-> r.precipitacion_mm]]
    IN  Flatten([k \in 1..Len(df) |-> Izq(df[k])])

\* Series.sum() and Series.mean() of a nullable column, NaN skipped
NoNulos(col) == LET Hay(v) == v # NaN IN SelectSeq(col, Hay)
Suma(col) == SumSeq([k \in 1..Len(NoNulos(col)) |-> NoNulos(col)[k][1]])
\* the mean rounded to one unit of the column's scale; NaN of no values
MediaRedondeada(col) ==
    IF NoNulos(col) = <<>> THEN NaN
    ELSE << RoundHalfEven(Suma(col), Len(NoNulos(col))) >>

ClaveMesDepto(r) == <<r.Mes_anio[1], r.Mes_anio[2], RangoNombre(r.Departamento)>>

\* groupby(['Mes_anio', 'departamento']).agg(sum, mean, mean), round(1),
\* the renames and the provenance column
ClimaMensual(df_clima_horario, origen) ==
    LET claves == {<<df_clima_horario[k].Mes_anio, df_clima_horario[k].departamento>> :
                      k \in {j \in 1..Len(df_clima_horario) :
                                df_clima_horario[j].Mes_anio # NaT}}
        Grupo(c) == LET En(r) == r.Mes_anio = c[1] /\ r.departamento = c[2]
                    IN  SelectSeq(df_clima_horario, En)
        Fila(c) == LET g == Grupo(c) IN
            [Mes_anio |-> c[1], Departamento |-> c[2],
             Precip_Total_mm |-> << Suma([k \in 1..Len(g) |-> g[k].precipitacion_mm]) >>,
             Temp_Media_C |-> MediaRedondeada([k \in 1..Len(g) |-> g[k].temperatura_c]),
             Hum_Media_Pje |-> MediaRedondeada([k \in 1..Len(g) |-> g[k].humedad_pje]),
             origen_fuente |-> origen]
        RECURSIVE Lista(_)
        Lista(S) == IF S = {} THEN <<>>
                    ELSE LET c == CHOOSE x \in S : TRUE
                         IN  <<Fila(c)>> \o Lista(S \ {c})
        filas == Lista(claves)
    IN  Ordenados([k \in 1..Len(filas) |-> <<ClaveMesDepto(filas[k]), filas[k]>>])

\* lines 212-261 of mediador(), given the four loaded climate tables
ResolverClima(temp, hum, precip, df_estaciones) ==
    LET df_temp == ParseFechas(temp)
        df_hum == ParseFechas(hum)
        df_precip == ParseFechas(precip)
        origen == <<"INUMET_precipitaciones", "INUMET_temperatura", "INUMET_humedad">>
        horario == MergeEstaciones(
                      MergePrecip(MergeTempHum(df_temp, df_hum), df_precip),
                      df_estaciones)
    IN  ClimaMensual(horario, origen)

\* --------------------------------------------------------------------------
\* 3.3 Production (UAM)
\* --------------------------------------------------------------------------
\* quantities are integers in units of 10^-DecMax
DecMax == MaxCelda + 1
Escala == 10 ^ DecMax

\* Series.str.replace(viejo, nuevo, regex=False) on one text
RECURSIVE StrReplace(_, _, _)
StrReplace(s, viejo, nuevo) ==
    IF s = <<>> THEN <<>>
    ELSE (IF Head(s) = viejo THEN nuevo ELSE <<Head(s)>>)
         \o StrReplace(Tail(s), viejo, nuevo)

\* the dash-to-zero replacement left out
LimpiarCelda_SinGuion(s) ==
    StrReplace(StrReplace(StrReplace(s, ".", <<>>), " ", <<>>), ",", <<".">>)

\* lines 291-298: the chain of four replacements
LimpiarCelda(s) ==
    StrReplace(StrReplace(StrReplace(StrReplace(s, ".", <<>>), " ", <<>>),
                          "-", <<"0">>), ",", <<".">>)

\* pd.to_numeric(errors='coerce') of a text of digits and points: NaN unless it
\* is digits with at most one point and at least one digit
to_numeric_coerce(s) ==
    LET puntos == {k \in 1..Len(s) : s[k] = "."}
        EsNum(c) == EsDigito(c) \/ c = "."
    IN  IF (\E k \in 1..Len(s) : ~EsNum(s[k])) \/ Cardinality(puntos) > 1
           \/ ~(\E k \in 1..Len(s) : EsDigito(s[k]))
        THEN NaN
        ELSE IF puntos = {} THEN << NumVal(s) * Escala >>
        ELSE LET p == CHOOSE k \in puntos : TRUE
                 ent == SubSeq(s, 1, p - 1)
                 dec == SubSeq(s, p + 1, Len(s))
             IN  << NumVal(ent) * Escala + NumVal(dec) * 10 ^ (DecMax - Len(dec)) >>

EsManzana(f) == f.especie = "Manzana"

\* lines 270-287: the filter on the species and melt(): one row per
\* (column, row of the species), column by column
Melt(df_produccion) ==
    LET filas == SelectSeq(df_produccion.filas, EsManzana)
        cols == df_produccion.columnas
    IN  Flatten([c \in 1..Len(cols) |->
            [f \in 1..Len(filas) |->
                [Mes_Bruto |-> cols[c], Produccion_kg |-> filas[f].celdas[c]]]])

\* lines 291-307: clean, convert, drop the rows that did not convert
NumerosProduccion(largo) ==
    LET conv == [k \in 1..Len(largo) |->
                    [largo[k] EXCEPT !.Produccion_kg = to_numeric_coerce(LimpiarCelda(@))]]
        EsNumero(r) == r.Produccion_kg # NaN
    IN  SelectSeq(conv, EsNumero)

\* lines 312-316: Mes_Bruto.str[:3].map(MESES_MAP_ABR), as the two-digit text
Mes_Num(mes_bruto) ==
    LET m == MapMes(SubSeq(mes_bruto, 1, Min(3, Len(mes_bruto))))
    IN  IF m = NaN THEN NaN
        ELSE << Digitos[(m[1] \div 10) + 1], Digitos[(m[1] % 10) + 1] >>

\* lines 319-323: "20" + Mes_Bruto.str[3:]
Anio_Num(mes_bruto) == <<"2", "0">> \o SubSeq(mes_bruto, 4, Len(mes_bruto))

\* line 326: Mes_Num + '-' + Anio_Num; NaN when Mes_Num is NaN
Fecha_Str(mes_bruto) ==
    IF Mes_Num(mes_bruto) = NaN THEN NaN
    ELSE << Mes_Num(mes_bruto) \o <<"-">> \o Anio_Num(mes_bruto) >>

\* strptime with format '%m-%Y' on a text that starts with a two-digit month:
\* the month, a dash, exactly four digits
CumpleFormato(t) ==
    /\ Len(t) = 7
    /\ t[3] = "-"
    /\ TodosDigitos(SubSeq(t, 1, 2)) /\ TodosDigitos(SubSeq(t, 4, 7))
    /\ NumVal(SubSeq(t, 1, 2)) \in 1..12

\* lines 329-332: pd.to_datetime(Fecha_Str, format='%m-%Y').dt.to_period('M');
\* NaN gives NaT, a text that does not match raises ValueError
FechaInvalida(mes_bruto) ==
    Fecha_Str(mes_bruto) # NaN /\ ~CumpleFormato(Fecha_Str(mes_bruto)[1])
MesDeEtiqueta(mes_bruto) ==
    IF Fecha_Str(mes_bruto) = NaN THEN NaT
    ELSE LET t == Fecha_Str(mes_bruto)[1]
         IN  << NumVal(SubSeq(t, 4, 7)), NumVal(SubSeq(t, 1, 2)) >>

ClaveMes(r) == <<r.Mes_anio[1], r.Mes_anio[2]>>

\* lines 338-341: groupby(['Mes_anio']).agg(sum), the NaT group dropped
ProduccionMensual(largo) ==
    LET meses == {MesDeEtiqueta(largo[k].Mes_Bruto) : k \in 1..Len(largo)} \ {NaT}
        Total(m) == LET Del(r) == MesDeEtiqueta(r.Mes_Bruto) = m
                        g == SelectSeq(largo, Del)
                    IN  SumSeq([k \in 1..Len(g) |-> g[k].Produccion_kg[1]])
        RECURSIVE Lista(_)
        Lista(S) == IF S = {} THEN <<>>
                    ELSE LET m == CHOOSE x \in S : TRUE
                         IN  <<[Mes_anio |-> m, Produccion_kg |-> <<Total(m)>>]>>
                             \o Lista(S \ {m})
        filas == Lista(meses)
    IN  Ordenados([k \in 1..Len(filas) |-> <<ClaveMes(filas[k]), filas[k]>>])

\* lines 268-341 of mediador(): the monthly totals, or the ValueError that
\* to_datetime raises on a label whose year text is not two digits
ResolverProduccion(df_produccion) ==
    LET largo == NumerosProduccion(Melt(df_produccion))
    IN  IF \E k \in 1..Len(largo) : FechaInvalida(largo[k].Mes_Bruto)
        THEN [error |-> "ValueError", df |-> <<>>]
        ELSE [error |-> "", df |-> ProduccionMensual(largo)]

\* --------------------------------------------------------------------------
\* 3.4 Prices (MEF)
\* --------------------------------------------------------------------------
\* lines 351-357: pd.merge(df_precios, df_establecimientos, how="inner")
MergePrecios(df_precios, df_establecimientos) ==
    LET Izq(p) == LET Igual(e) == e.idestablecimientos = p.establecimiento
                      es == SelectSeq(df_establecimientos, Igual)
                  IN  [j \in 1..Len(es) |->
                         [fecha |-> p.fecha, precio |-> p.precio,
                          iddepto |-> es[j].iddepto, depto |-> es[j].depto]]
    IN  Flatten([k \in 1..Len(df_precios) |-> Izq(df_precios[k])])

\* line 360: pd.to_datetime(format='mixed') has no errors='coerce': an empty
\* cell gives NaT, a text that is no date raises ValueError
FechaNoParseable(f) == f # <<>> /\ ~EsFecha(f)

ClavePrecio(r) ==
    <<r.iddepto, RangoNombre(r.Departamento), r.Mes_anio[1], r.Mes_anio[2]>>

\* lines 361-374: dropna, the month key, groupby(['iddepto', 'depto',
\* 'Mes_anio']).agg(mean), round(2), the three columns kept
PreciosMensual(merged) ==
    LET Valida(r) == r.fecha # NaT /\ r.depto # NaNStr
        filas == SelectSeq(merged, Valida)
        claves == {<<filas[k].iddepto, filas[k].depto, to_period_M(filas[k].fecha)>> :
                      k \in 1..Len(filas)}
        Fila(c) == LET En(r) == r.iddepto = c[1] /\ r.depto = c[2]
                                /\ to_period_M(r.fecha) = c[3]
                       g == SelectSeq(filas, En)
                   IN  [iddepto |-> c[1], Mes_anio |-> c[3], Departamento |-> c[2],
                        Precio_kg |-> << RoundHalfEven(
                            SumSeq([k \in 1..Len(g) |-> g[k].precio]), Len(g)) >>]
        RECURSIVE Lista(_)
        Lista(S) == IF S = {} THEN <<>>
                    ELSE LET c == CHOOSE x \in S : TRUE
                         IN  <<Fila(c)>> \o Lista(S \ {c})
        grupos == Lista(claves)
        ord == Ordenados([k \in 1..Len(grupos) |-> <<ClavePrecio(grupos[k]), grupos[k]>>])
    IN  [k \in 1..Len(ord) |->
            [Mes_anio |-> ord[k].Mes_anio, Departamento |-> ord[k].Departamento,
             Precio_kg |-> ord[k].Precio_kg]]

\* lines 347-374 of mediador()
ResolverPrecios(df_precios, df_establecimientos) ==
    LET merged == MergePrecios(df_precios, df_establecimientos)
    IN  IF \E k \in 1..Len(merged) : FechaNoParseable(merged[k].fecha)
        THEN [error |-> "ValueError", df |-> <<>>]
        ELSE [error |-> "", df |-> PreciosMensual(merged)]

\* --------------------------------------------------------------------------
\* 3.5 / 3.6 Fusion and the final view
\* --------------------------------------------------------------------------
\* lines 384-388: df_clima_mensual.merge(df_produccion_mensual, on='Mes_anio',
\* how='outer'); an outer merge returns its rows in the order of the key
FusionProduccion(df_clima_mensual, df_produccion_mensual) ==
    LET Prod(m) == LET Del(r) == r.Mes_anio = m
                   IN  SelectSeq(df_produccion_mensual, Del)
        Fila(c, kg) ==
            [Mes_anio |-> c.Mes_anio, Departamento |-> c.Departamento,
             Precip_Total_mm |-> c.Precip_Total_mm, Temp_Media_C |-> c.Temp_Media_C,
             Hum_Media_Pje |-> c.Hum_Media_Pje, origen_fuente |-> c.origen_fuente,
             Produccion_kg |-> kg]
        Izq(c) == IF Prod(c.Mes_anio) = <<>> THEN << Fila(c, NaN) >>
                  ELSE [j \in 1..Len(Prod(c.Mes_anio)) |->
                           Fila(c, Prod(c.Mes_anio)[j].Produccion_kg)]
        SinIzq(r) == \A k \in 1..Len(df_clima_mensual) :
                        df_clima_mensual[k].Mes_anio # r.Mes_anio
        solo == SelectSeq(df_produccion_mensual, SinIzq)
        filas == Flatten([k \in 1..Len(df_clima_mensual) |-> Izq(df_clima_mensual[k])])
                 \o [j \in 1..Len(solo) |->
                        [Mes_anio |-> solo[j].Mes_anio, Departamento |-> NaNStr,
                         Precip_Total_mm |-> NaN, Temp_Media_C |-> NaN,
                         Hum_Media_Pje |-> NaN, origen_fuente |-> NaN,
                         Produccion_kg |-> solo[j].Produccion_kg]]
    IN  Ordenados([k \in 1..Len(filas) |-> <<ClaveMes(filas[k]), filas[k]>>])

\* the same merge with the rows left as they come: the left rows with their
\* matches, then the unmatched right rows
FusionPrecios_SinOrden(df_global, df_precios_mensual) ==
    LET Igual(a, b) == a.Mes_anio = b.Mes_anio /\ a.Departamento = b.Departamento
        Fila(g, precio) ==
            [Mes_anio |-> g.Mes_anio, Departamento |-> g.Departamento,
             Precip_Total_mm |-> g.Precip_Total_mm, Temp_Media_C |-> g.Temp_Media_C,
             Hum_Media_Pje |-> g.Hum_Media_Pje, origen_fuente |-> g.origen_fuente,
             Produccion_kg |-> g.Produccion_kg, Precio_kg |-> precio]
        Izq(g) == LET Con(r) == Igual(g, r)
                      ps == SelectSeq(df_precios_mensual, Con)
                  IN  IF ps = <<>> THEN << Fila(g, NaN) >>
                      ELSE [j \in 1..Len(ps) |-> Fila(g, ps[j].Precio_kg)]
        SinIzq(r) == \A k \in 1..Len(df_global) : ~Igual(df_global[k], r)
        solo == SelectSeq(df_precios_mensual, SinIzq)
    IN  Flatten([k \in 1..Len(df_global) |-> Izq(df_global[k])])
        \o [j \in 1..Len(solo) |->
               [Mes_anio |-> solo[j].Mes_anio,
                Departamento |-> solo[j].Departamento,
                Precip_Total_mm |-> NaN, Temp_Media_C |-> NaN,
                Hum_Media_Pje |-> NaN, origen_fuente |-> NaN,
                Produccion_kg |-> NaN, Precio_kg |-> solo[j].Precio_kg]]

\* lines 392-396: df_global.merge(df_precios_mensual, on=['Mes_anio',
\* 'Departamento'], how='outer')
FusionPrecios(df_global, df_precios_mensual) ==
    LET Igual(a, b) == a.Mes_anio = b.Mes_anio /\ a.Departamento = b.Departamento
        Fila(g, precio) ==
            [Mes_anio |-> g.Mes_anio, Departamento |-> g.Departamento,
             Precip_Total_mm |-> g.Precip_Total_mm, Temp_Media_C |-> g.Temp_Media_C,
             Hum_Media_Pje |-> g.Hum_Media_Pje, origen_fuente |-> g.origen_fuente,
             Produccion_kg |-> g.Produccion_kg, Precio_kg |-> precio]
        Izq(g) == LET Con(r) == Igual(g, r)
                      ps == SelectSeq(df_precios_mensual, Con)
                  IN  IF ps = <<>> THEN << Fila(g, NaN) >>
                      ELSE [j \in 1..Len(ps) |-> Fila(g, ps[j].Precio_kg)]
        SinIzq(r) == \A k \in 1..Len(df_global) : ~Igual(df_global[k], r)
        solo == SelectSeq(df_precios_mensual, SinIzq)
        filas == Flatten([k \in 1..Len(df_global) |-> Izq(df_global[k])])
                 \o [j \in 1..Len(solo) |->
                        [Mes_anio |-> solo[j].Mes_anio,
                         Departamento |-> solo[j].Departamento,
                         Precip_Total_mm |-> NaN, Temp_Media_C |-> NaN,
                         Hum_Media_Pje |-> NaN, origen_fuente |-> NaN,
                         Produccion_kg |-> NaN, Precio_kg |-> solo[j].Precio_kg]]
    IN  Ordenados([k \in 1..Len(filas) |-> <<ClaveMesDepto(filas[k]), filas[k]>>])

\* lines 401-408: df_global[ESQUEMA_GLOBAL_FINAL]; 'origen_fuente' is commented
\* out of the list, so the column is not in the view
ESQUEMA_GLOBAL_FINAL ==
    { "Mes_anio", "Departamento", "Precip_Total_mm", "Temp_Media_C",
      "Hum_Media_Pje", "Produccion_kg", "Precio_kg" }
Proyectar(fila) == [c \in ESQUEMA_GLOBAL_FINAL |-> fila[c]]

vista_global_final(clima, produccion, precios) ==
    LET df_global == FusionPrecios(FusionProduccion(clima, produccion), precios)
    IN  [k \in 1..Len(df_global) |-> Proyectar(df_global[k])]

\* --------------------------------------------------------------------------
\* State
\* --------------------------------------------------------------------------
VARIABLES
    fuentes,              \* the upstream snapshot: what each source holds
    reloj,                \* time.time(), in seconds
    CACHE,                \* the module-level dict: timestamp and data
    pc,                   \* where the request being served is
    now,                  \* get_cached_vista_global's local
    i,                    \* position of the loading loop in DATA_SOURCES
    integrated_data,      \* mediador's dict of the sources that loaded
    df_clima_mensual,
    df_produccion_mensual,
    df_precios_mensual,
    df,                   \* what mediador() returned to get_cached_vista_global
    excepcion,            \* the exception travelling up to do_GET, "" if none
    respuesta             \* the last response do_GET wrote

vars == << fuentes, reloj, CACHE, pc, now, i, integrated_data, df_clima_mensual,
           df_produccion_mensual, df_precios_mensual, df, excepcion, respuesta >>

locales == << i, integrated_data, df_clima_mensual, df_produccion_mensual,
              df_precios_mensual >>

SinRespuesta == [status |-> 0, data |-> <<>>, warning |-> FALSE, error |-> ""]

InitCon(Universo) ==
    /\ fuentes \in Universo
    /\ reloj = 0
    /\ CACHE = [timestamp |-> None, data |-> None]
    /\ pc = "idle"
    /\ now = 0
    /\ i = 1
    /\ integrated_data = <<>>
    /\ df_clima_mensual = <<>>
    /\ df_produccion_mensual = <<>>
    /\ df_precios_mensual = <<>>
    /\ df = None
    /\ excepcion = ""
    /\ respuesta = SinRespuesta

Cargadas == DOMAIN integrated_data

\* --------------------------------------------------------------------------
\* Actions
\* --------------------------------------------------------------------------
\* time passes between two requests
Tick(limite) ==
    /\ pc = "idle"
    /\ reloj < limite
    /\ reloj' = reloj + 1
    /\ UNCHANGED << fuentes, CACHE, pc, now, locales, df, excepcion, respuesta >>

CacheVigente(t) ==
    /\ CACHE.data # None
    /\ CACHE.timestamp # None
    /\ t - CACHE.timestamp[1] < CACHE_TTL_SECONDS

\* do_GET -> get_cached_vista_global, lines 431-435: the stored result
GetCacheHit ==
    /\ pc = "idle"
    /\ CacheVigente(reloj)
    /\ now' = reloj
    /\ df' = CACHE.data
    /\ pc' = "responder"
    /\ excepcion' = ""
    /\ UNCHANGED << fuentes, reloj, CACHE, locales, respuesta >>

\* do_GET -> get_cached_vista_global, lines 431-438: mediador() is called
GetCacheMiss(limite) ==
    /\ pc = "idle"
    /\ ~CacheVigente(reloj)
    /\ reloj + Len(DATA_SOURCES) <= limite
    /\ now' = reloj
    /\ pc' = "cargar"
    /\ i' = 1
    /\ integrated_data' = <<>>
    /\ df_clima_mensual' = <<>>
    /\ df_produccion_mensual' = <<>>
    /\ df_precios_mensual' = <<>>
    /\ df' = None
    /\ excepcion' = ""
    /\ UNCHANGED << fuentes, reloj, CACHE, respuesta >>

\* lines 188-191: the wrapper the loop calls for a source
Wrapper(source_name) ==
    IF source_name = "INUMET_estaciones"
    THEN wrapper_web_scraping_estaciones(fuentes[source_name])
    ELSE wrapper_fuentes(fuentes[source_name])

\* lines 186-197: one turn of the loading loop, with its time.sleep(1)
CargarFuente ==
    /\ pc = "cargar"
    /\ LET source_name == DATA_SOURCES[i]
           df_source == Wrapper(source_name)
       IN  integrated_data' =
               IF Vacia(source_name, df_source) THEN integrated_data
               ELSE [n \in Cargadas \cup {source_name} |->
                        IF n = source_name THEN df_source ELSE integrated_data[n]]
    /\ reloj' = reloj + 1
    /\ IF i = Len(DATA_SOURCES)
       THEN pc' = "cargado" /\ i' = i
       ELSE pc' = "cargar" /\ i' = i + 1
    /\ UNCHANGED << fuentes, CACHE, now, df_clima_mensual, df_produccion_mensual,
                    df_precios_mensual, df, excepcion, respuesta >>

\* the early return left out: the run goes on to integrated_data[...]
SinFuentes_SinRetorno ==
    /\ pc = "cargado"
    /\ Cargadas = {}
    /\ excepcion' = "KeyError"
    /\ pc' = "except"
    /\ UNCHANGED << fuentes, reloj, CACHE, now, locales, df, respuesta >>

\* lines 203-205: nothing loaded: mediador() returns the empty dict
SinFuentes ==
    /\ pc = "cargado"
    /\ Cargadas = {}
    /\ df' = << [tipo |-> "dict", filas |-> <<>>] >>
    /\ pc' = "guardar"
    /\ UNCHANGED << fuentes, reloj, CACHE, now, locales, excepcion, respuesta >>

Faltan(nombres) == \E n \in nombres : n \notin Cargadas

Lanzar(e) ==
    /\ excepcion' = e
    /\ pc' = "except"

\* lines 212-261: integrated_data[...] raises KeyError on a source that did
\* not load
PasoClima ==
    /\ pc = "cargado"
    /\ Cargadas # {}
    /\ LET nombres == {"INUMET_temperatura", "INUMET_humedad",
                       "INUMET_precipitaciones", "INUMET_estaciones"}
       IN  IF Faltan(nombres)
           THEN Lanzar("KeyError") /\ UNCHANGED df_clima_mensual
           ELSE /\ df_clima_mensual' =
                      ResolverClima(integrated_data["INUMET_temperatura"],
                                    integrated_data["INUMET_humedad"],
                                    integrated_data["INUMET_precipitaciones"],
                                    integrated_data["INUMET_estaciones"])
                /\ pc' = "produccion"
                /\ UNCHANGED excepcion
    /\ UNCHANGED << fuentes, reloj, CACHE, now, i, integrated_data,
                    df_produccion_mensual, df_precios_mensual, df, respuesta >>

\* lines 268-341
PasoProduccion ==
    /\ pc = "produccion"
    /\ IF Faltan({"UAM_produccion"})
       THEN Lanzar("KeyError") /\ UNCHANGED df_produccion_mensual
       ELSE LET r == ResolverProduccion(integrated_data["UAM_produccion"])
            IN  IF r.error # ""
                THEN Lanzar(r.error) /\ UNCHANGED df_produccion_mensual
                ELSE /\ df_produccion_mensual' = r.df
                     /\ pc' = "precios"
                     /\ UNCHANGED excepcion
    /\ UNCHANGED << fuentes, reloj, CACHE, now, i, integrated_data,
                    df_clima_mensual, df_precios_mensual, df, respuesta >>

\* lines 347-374
PasoPrecios ==
    /\ pc = "precios"
    /\ IF Faltan({"MEF_precios", "MEF_establecimientos"})
       THEN Lanzar("KeyError") /\ UNCHANGED df_precios_mensual
       ELSE LET r == ResolverPrecios(integrated_data["MEF_precios"],
                                     integrated_data["MEF_establecimientos"])
            IN  IF r.error # ""
                THEN Lanzar(r.error) /\ UNCHANGED df_precios_mensual
                ELSE /\ df_precios_mensual' = r.df
                     /\ pc' = "fusion"
                     /\ UNCHANGED excepcion
    /\ UNCHANGED << fuentes, reloj, CACHE, now, i, integrated_data,
                    df_clima_mensual, df_produccion_mensual, df, respuesta >>

\* lines 384-416: the two merges, the projection, the return
PasoFusion ==
    /\ pc = "fusion"
    /\ df' = << [tipo |-> "DataFrame",
                 filas |-> vista_global_final(df_clima_mensual,
                                              df_produccion_mensual,
                                              df_precios_mensual)] >>
    /\ pc' = "guardar"
    /\ UNCHANGED << fuentes, reloj, CACHE, now, locales, excepcion, respuesta >>

\* the result stamped with the time at which mediador() returned
GuardarCache_AlTerminar ==
    /\ pc = "guardar"
    /\ CACHE' = [timestamp |-> <<reloj>>, data |-> df]
    /\ pc' = "responder"
    /\ UNCHANGED << fuentes, reloj, now, locales, df, excepcion, respuesta >>

\* lines 439-441: the result is stored with the time read at the start
GuardarCache ==
    /\ pc = "guardar"
    /\ CACHE' = [timestamp |-> <<now>>, data |-> df]
    /\ pc' = "responder"
    /\ UNCHANGED << fuentes, reloj, now, locales, df, excepcion, respuesta >>

\* lines 494-511: 200 with the records, or 200 with an empty list and the
\* warning when the result is no DataFrame or an empty one
\* (to_jsonable_records keeps the rows and their nulls; data holds the rows)
Responder ==
    /\ pc = "responder"
    /\ respuesta' =
          IF df[1].tipo = "DataFrame" /\ df[1].filas # <<>>
          THEN [status |-> 200, data |-> df[1].filas, warning |-> FALSE, error |-> ""]
          ELSE [status |-> 200, data |-> <<>>, warning |-> TRUE, error |-> ""]
    /\ pc' = "idle"
    /\ UNCHANGED << fuentes, reloj, CACHE, now, locales, df, excepcion >>

\* the exception answered as an empty result
Responder500_Como200 ==
    /\ pc = "except"
    /\ respuesta' = [status |-> 200, data |-> <<>>, warning |-> TRUE, error |-> ""]
    /\ pc' = "idle"
    /\ UNCHANGED << fuentes, reloj, CACHE, now, locales, df, excepcion >>

\* lines 513-521: any exception becomes a 500 with the error text
Responder500 ==
    /\ pc = "except"
    /\ respuesta' = [status |-> 500, data |-> <<>>, warning |-> FALSE,
                     error |-> excepcion]
    /\ pc' = "idle"
    /\ UNCHANGED << fuentes, reloj, CACHE, now, locales, df, excepcion >>

\* between two requests the upstream sources change: the wrappers fetch the
\* URLs anew on every run of mediador()
CambiarFuentes(Universo) ==
    /\ pc = "idle"
    /\ \E f \in Universo : f # fuentes /\ fuentes' = f
    /\ UNCHANGED << reloj, CACHE, pc, now, locales, df, excepcion, respuesta >>

\* --------------------------------------------------------------------------
\* Snapshots of the upstream sources
\* --------------------------------------------------------------------------
Lectura(f, e, v) == [fecha |-> f, estacion_id |-> e, valor |-> v]
Estacion(n, d) == [nombreestacion |-> n, departamento |-> d]
Precio(e, f, p) == [establecimiento |-> e, fecha |-> f, precio |-> p]
Establecimiento(e, n, d) == [idestablecimientos |-> e, iddepto |-> n, depto |-> d]
FilaProd(esp, celdas) == [especie |-> esp, celdas |-> celdas]
TablaProd(cols, filas) == [columnas |-> cols, filas |-> filas]

Instantanea(T, H, P, E, PR, ES, U) ==
    [INUMET_temperatura : T, INUMET_humedad : H, INUMET_precipitaciones : P,
     INUMET_estaciones : E, MEF_precios : PR, MEF_establecimientos : ES,
     UAM_produccion : U]

\* every source failed
TodoVacio ==
    [INUMET_temperatura |-> <<>>, INUMET_humedad |-> <<>>,
     INUMET_precipitaciones |-> <<>>, INUMET_estaciones |-> <<>>,
     MEF_precios |-> <<>>, MEF_establecimientos |-> <<>>,
     UAM_produccion |-> TablaProd(<<>>, <<>>)]

ene20 == <<"e","n","e","2","0">>
feb20 == <<"f","e","b","2","0">>
ene07 == <<"e","n","e","0","7">>
feb07 == <<"f","e","b","0","7">>
sept07 == <<"s","e","p","t","0","7">>
dic07 == <<"d","i","c","0","7">>
total == <<"t","o","t","a","l">>
ene7 == <<"e","n","e","7">>

\* the snapshots of Spec: every source absent or present, with a few contents
Universo ==
    Instantanea(
        { <<>>, << Lectura(<<2020,1,5>>, "A", 105) >>,
                << Lectura(<<2020,2,3>>, "A", 200) >> },
        { <<>>, << Lectura(<<2020,1,5>>, "A", 600) >> },
        { <<>>, << Lectura(<<2020,1,5>>, "A", 50) >> },
        { <<>>, << Estacion("A", "Canelones") >>, << Estacion("A", "Exterior") >> },
        { <<>>, << Precio(1, <<2020,1,10>>, 5000) >> },
        { <<>>, << Establecimiento(1, 10, "Montevideo") >>,
                << Establecimiento(1, 2, "Canelones") >>,
                << Establecimiento(1, 20, "Exterior") >> },
        { TablaProd(<<ene20>>, <<>>),
          TablaProd(<<ene20>>, << FilaProd("Manzana", << <<"1","0">> >>) >>),
          TablaProd(<<feb20>>, << FilaProd("Manzana", << <<"1","0">> >>) >>) })

Init == InitCon(Universo)

Next ==
    \/ Tick(MaxReloj)
    \/ GetCacheHit
    \/ GetCacheMiss(MaxReloj)
    \/ CargarFuente
    \/ SinFuentes
    \/ PasoClima
    \/ PasoProduccion
    \/ PasoPrecios
    \/ PasoFusion
    \/ GuardarCache
    \/ Responder
    \/ Responder500

Spec == Init /\ [][Next]_vars


\* SpecClima: many climate tables (repeated keys, two stations, two months,
\* a date that does not parse), the other sources fixed
LecturasTemp ==
    { Lectura(f, "A", v) : f \in {<<2020,1,5>>, <<2020,2,3>>, <<2020,13,1>>},
                           v \in {105, 110} }
    \cup { Lectura(f, "B", 200) : f \in {<<2020,1,5>>, <<2020,2,3>>, <<2020,13,1>>} }
LecturasHum == { Lectura(<<2020,1,5>>, "A", v) : v \in {600, 605} }
LecturasPrecip ==
    { Lectura(<<2020,1,5>>, "A", 50), Lectura(<<2020,1,5>>, "Z", 70),
      Lectura(<<2020,2,3>>, "A", 20) }
Directorios ==
    { << Estacion("A", "Canelones") >>,
      << Estacion("A", "Canelones"), Estacion("B", "Montevideo") >>,
      << Estacion("A", "Canelones"), Estacion("B", "Canelones") >>,
      << Estacion("A", "Canelones"), Estacion("A", "Canelones") >>,
      << Estacion("A", "Canelones"), Estacion("B", "Exterior") >> }
PreciosFijos == << Precio(1, <<2020,1,10>>, 5000) >>
EstablecimientosFijos == << Establecimiento(1, 10, "Montevideo") >>
ProduccionFija == TablaProd(<<ene20>>, << FilaProd("Manzana", << <<"1","0">> >>) >>)

UniversoClima ==
    Instantanea(SeqHasta(LecturasTemp, MaxLecturas),
                SeqHasta(LecturasHum, MaxLecturas - 1),
                SeqHasta(LecturasPrecip, MaxLecturas),
                Directorios, {PreciosFijos}, {EstablecimientosFijos},
                {ProduccionFija})
    \cup {TodoVacio}

InitClima == InitCon(UniversoClima)

NextCorto ==
    \/ Tick(RelojCorto)
    \/ GetCacheHit
    \/ GetCacheMiss(RelojCorto)
    \/ CargarFuente
    \/ SinFuentes
    \/ PasoClima
    \/ PasoProduccion
    \/ PasoPrecios
    \/ PasoFusion
    \/ GuardarCache
    \/ Responder
    \/ Responder500

SpecClima == InitClima /\ [][NextCorto]_vars

\* SpecProd: many production tables, the other sources fixed
Alfabeto == {"1", "5", ".", ",", "-", " ", "x"}
CeldaEjemplo == <<"1", ".", "2", "3", "4", ",", "5">>
Guion == <<"-">>
Celdas == SeqHasta(Alfabeto, MaxCelda) \cup {CeldaEjemplo}
CeldasFila == { <<"1","0">>, Guion, <<"x">> }
EtiquetasMes ==
    { it[1] \o <<"0","7">> : it \in MESES_MAP_ABR }
ColumnasProd ==
    { <<l>> : l \in EtiquetasMes \cup {total, ene7} }
    \cup { <<ene07, l>> : l \in {feb07, sept07, total, ene7} }
FilasDe(n) ==
    { FilaProd("Manzana", cs) : cs \in [1..n -> CeldasFila] }
    \cup { FilaProd("Pera", [k \in 1..n |-> <<"1","0">>]) }
TablaEjemplo ==
    TablaProd(<<ene07, feb07>>, << FilaProd("Manzana", <<CeldaEjemplo, Guion>>) >>)
TablasProd ==
    { TablaProd(<<l>>, << FilaProd("Manzana", <<c>>) >>) :
          l \in {ene07, feb07}, c \in Celdas }
    \cup UNION { { TablaProd(cols, fs) : fs \in SeqHasta(FilasDe(Len(cols)), MaxFilasProd) } :
                    cols \in ColumnasProd }
    \cup {TablaEjemplo}

ClimaFijo == << Lectura(<<2020,1,5>>, "A", 105) >>
UniversoProd ==
    Instantanea({ClimaFijo}, {ClimaFijo}, {ClimaFijo},
                { << Estacion("A", "Canelones") >> },
                {PreciosFijos}, {EstablecimientosFijos}, TablasProd)
    \cup {TodoVacio}
    \cup Instantanea({<<>>}, {ClimaFijo}, {ClimaFijo},
                     { << Estacion("A", "Canelones") >> },
                     {PreciosFijos}, {EstablecimientosFijos}, {ProduccionFija})

InitProd == InitCon(UniversoProd)
SpecProd == InitProd /\ [][NextCorto]_vars

\* SpecPrecios: many price tables and establishment directories (a date text
\* that is no date, an empty date cell, an establishment not in the directory,
\* one region name under two region ids), the other sources fixed
SinFecha == <<0, 0, 0>>
ObservacionesPrecio ==
    { Precio(1, <<2020,1,10>>, 5000), Precio(2, <<2020,1,20>>, 6000),
      Precio(2, <<2020,2,5>>, 6500), Precio(1, SinFecha, 7000),
      Precio(1, <<>>, 4000), Precio(3, SinFecha, 5500) }
DirectoriosMEF ==
    { << Establecimiento(1, 10, "Montevideo") >>,
      << Establecimiento(1, 10, "Montevideo"), Establecimiento(2, 10, "Montevideo") >>,
      << Establecimiento(1, 10, "Montevideo"), Establecimiento(2, 11, "Montevideo") >>,
      << Establecimiento(1, 10, "Montevideo"), Establecimiento(2, 2, "Canelones") >> }

UniversoPrecios ==
    Instantanea({ClimaFijo}, {ClimaFijo}, {ClimaFijo},
                { << Estacion("A", "Canelones") >> },
                SeqHasta(ObservacionesPrecio, MaxPrecios), DirectoriosMEF,
                {ProduccionFija})
    \cup {TodoVacio}

InitPrecios == InitCon(UniversoPrecios)
SpecPrecios == InitPrecios /\ [][NextCorto]_vars

\* SpecCache: the sources change between requests: a snapshot that integrates,
\* one with a source missing, one with a price date that is no date, and the
\* one with every source failed
FuentesBuenas ==
    [INUMET_temperatura |-> ClimaFijo, INUMET_humedad |-> ClimaFijo,
     INUMET_precipitaciones |-> ClimaFijo,
     INUMET_estaciones |-> << Estacion("A", "Canelones") >>,
     MEF_precios |-> PreciosFijos, MEF_establecimientos |-> EstablecimientosFijos,
     UAM_produccion |-> ProduccionFija]
UniversoCache ==
    { FuentesBuenas, TodoVacio,
      [FuentesBuenas EXCEPT !.INUMET_temperatura = <<>>],
      [FuentesBuenas EXCEPT !.MEF_precios = << Precio(1, SinFecha, 7000) >>] }

InitCache == InitCon(UniversoCache)

NextCache ==
    \/ Tick(MaxReloj)
    \/ CambiarFuentes(UniversoCache)
    \/ GetCacheHit
    \/ GetCacheMiss(MaxReloj)
    \/ CargarFuente
    \/ SinFuentes
    \/ PasoClima
    \/ PasoProduccion
    \/ PasoPrecios
    \/ PasoFusion
    \/ GuardarCache
    \/ Responder
    \/ Responder500

SpecCache == InitCache /\ [][NextCache]_vars

\* --------------------------------------------------------------------------
\* Properties
\* --------------------------------------------------------------------------
FuentesClima == {"INUMET_temperatura", "INUMET_humedad",
                 "INUMET_precipitaciones", "INUMET_estaciones"}
Disponible(n) == ~Vacia(n, Wrapper(n))
Disponibles == {n \in Rango(DATA_SOURCES) : Disponible(n)}
\* mediador() has returned a table
HayVista == df # None /\ df[1].tipo = "DataFrame"
Vista == df[1].filas

\* C1: whatever subset of the sources fails acquisition, mediador() does not
\* raise: no exception reaches do_GET while some source is missing.
C1_FallosTolerados ==
    (pc = "except") => (Cargadas = Rango(DATA_SOURCES))

\* C2: with only the four climate sources available, mediador() returns one
\* row per (month, region) of the monthly climate table, with the climate
\* columns filled and Produccion_kg and Precio_kg null.
C2_SoloClima ==
    (Disponibles = FuentesClima /\ pc \in {"produccion", "except", "guardar"})
    => /\ pc # "except"
       /\ (pc = "guardar" =>
             /\ HayVista
             /\ Len(Vista) = Len(df_clima_mensual)
             /\ \A k \in 1..Len(Vista) :
                   /\ Vista[k].Mes_anio = df_clima_mensual[k].Mes_anio
                   /\ Vista[k].Departamento = df_clima_mensual[k].Departamento
                   /\ Vista[k].Precip_Total_mm # NaN
                   /\ Vista[k].Produccion_kg = NaN
                   /\ Vista[k].Precio_kg = NaN)

\* C3: every row of the returned table has a Departamento among the 19 names
\* of DEPARTAMENTOS_URUGUAY.
C3_DepartamentoValido ==
    HayVista => \A k \in 1..Len(Vista) :
                   Vista[k].Departamento \in DEPARTAMENTOS_URUGUAY

\* C4: when every source fails, mediador() returns an empty result without
\* raising and do_GET answers 200 with an empty data list and the warning.
C4_SinDatos ==
    (Disponibles = {})
    => /\ pc # "except"
       /\ (df # None => df[1].filas = <<>>)
       /\ (respuesta.status # 0 =>
              respuesta = [status |-> 200, data |-> <<>>, warning |-> TRUE,
                           error |-> ""])
C4_Witness ==
    /\ Disponibles = {}
    /\ respuesta.status = 200 /\ respuesta.warning
    /\ CACHE.data # None

\* C9: all rows of one month in the returned table carry the same
\* Produccion_kg, the national total of that month when there is one.
C9_ProduccionDifundida ==
    HayVista =>
        /\ \A a, b \in 1..Len(Vista) :
              Vista[a].Mes_anio = Vista[b].Mes_anio
              => Vista[a].Produccion_kg = Vista[b].Produccion_kg
        /\ \A a \in 1..Len(Vista), p \in 1..Len(df_produccion_mensual) :
              Vista[a].Mes_anio = df_produccion_mensual[p].Mes_anio
              => Vista[a].Produccion_kg = df_produccion_mensual[p].Produccion_kg

\* the label C10 asks for: the kinds of source with a non-null value in the row
Contribuyentes(fila) ==
    (IF fila.Precip_Total_mm # NaN \/ fila.Temp_Media_C # NaN
        \/ fila.Hum_Media_Pje # NaN THEN {"climate"} ELSE {})
    \cup (IF fila.Produccion_kg # NaN THEN {"production"} ELSE {})
    \cup (IF fila.Precio_kg # NaN THEN {"price"} ELSE {})

\* C10: every row of the returned table carries a provenance label that names
\* exactly the kinds of source with a non-null value in that row.
C10_Procedencia ==
    HayVista => \A k \in 1..Len(Vista) :
                   /\ "origen_fuente" \in DOMAIN Vista[k]
                   /\ Vista[k].origen_fuente = Contribuyentes(Vista[k])

\* ---- climate -------------------------------------------------------------
\* the directory as mediador() sees it, and "the directory maps e to d"
DirectorioCargado == wrapper_web_scraping_estaciones(fuentes.INUMET_estaciones)
Mapea(e, d) ==
    \E k \in 1..Len(DirectorioCargado) :
        DirectorioCargado[k].estacion_id = e /\ DirectorioCargado[k].departamento = d

\* the readings of a source table that fall in month m and region d, each once
LecturasDe(tabla, m, d) ==
    LET En(q) == to_period_M(to_datetime_coerce(q.fecha)) = m /\ Mapea(q.estacion_id, d)
        qs == SelectSeq(tabla, En)
    IN  [k \in 1..Len(qs) |-> qs[k].valor]

MediaDe(vs) == IF vs = <<>> THEN NaN ELSE << RoundHalfEven(SumSeq(vs), Len(vs)) >>

AgregadosExactos(r) ==
    /\ r.Precip_Total_mm =
          << SumSeq(LecturasDe(fuentes.INUMET_precipitaciones, r.Mes_anio, r.Departamento)) >>
    /\ r.Temp_Media_C =
          MediaDe(LecturasDe(fuentes.INUMET_temperatura, r.Mes_anio, r.Departamento))
    /\ r.Hum_Media_Pje =
          MediaDe(LecturasDe(fuentes.INUMET_humedad, r.Mes_anio, r.Departamento))

\* C5: in every row of the monthly climate table the precipitation is the sum
\* and temperature and humidity are the rounded mean of exactly the input
\* readings of that month whose station the directory maps to that region,
\* each reading counted once.
C5_AgregadosClima ==
    (pc = "produccion") =>
        \A k \in 1..Len(df_clima_mensual) : AgregadosExactos(df_clima_mensual[k])

\* no (fecha, estacion_id) is repeated in a climate table, no station in the
\* directory
SinRepetidos(claves) ==
    \A a, b \in 1..Len(claves) : a # b => claves[a] # claves[b]
ClavesDe(tabla) == [k \in 1..Len(tabla) |-> Clave(ParseFechas(tabla)[k])]
ClavesUnicas ==
    /\ SinRepetidos(ClavesDe(fuentes.INUMET_temperatura))
    /\ SinRepetidos(ClavesDe(fuentes.INUMET_humedad))
    /\ SinRepetidos(ClavesDe(fuentes.INUMET_precipitaciones))
    /\ SinRepetidos([k \in 1..Len(DirectorioCargado) |-> DirectorioCargado[k].estacion_id])

\* what the code does give: the aggregates are exact when no key is repeated
AgregadosConClavesUnicas ==
    (pc = "produccion" /\ ClavesUnicas) =>
        \A k \in 1..Len(df_clima_mensual) : AgregadosExactos(df_clima_mensual[k])

\* ---- production ----------------------------------------------------------
Tabla == fuentes.UAM_produccion
FilasManzana == SelectSeq(Tabla.filas, EsManzana)
\* the value of a cell, NaN when it does not parse
ValorCelda(c) == to_numeric_coerce(LimpiarCelda(c))
\* the sum of the cells of column c of the species that parsed
SumaColumna(c) ==
    SumSeq([f \in 1..Len(FilasManzana) |->
               IF ValorCelda(FilasManzana[f].celdas[c]) = NaN THEN 0
               ELSE ValorCelda(FilasManzana[f].celdas[c])[1]])
HayNumero(c) ==
    \E f \in 1..Len(FilasManzana) : ValorCelda(FilasManzana[f].celdas[c]) # NaN
TotalDe(m) ==
    SumSeq([k \in 1..Len(df_produccion_mensual) |->
               IF df_produccion_mensual[k].Mes_anio = m
               THEN df_produccion_mensual[k].Produccion_kg[1] ELSE 0])

\* a label of the pattern: an abbreviation of the table and a two-digit year
EsEtiquetaDe(l, it) ==
    /\ Len(l) = Len(it[1]) + 2
    /\ SubSeq(l, 1, Len(it[1])) = it[1]
    /\ TodosDigitos(SubSeq(l, Len(it[1]) + 1, Len(l)))
EsEtiquetaDeMes(l) == \E it \in MESES_MAP_ABR : EsEtiquetaDe(l, it)
SoloMeses == \A c \in 1..Len(Tabla.columnas) : EsEtiquetaDeMes(Tabla.columnas[c])

SumaTotales ==
    SumSeq([k \in 1..Len(df_produccion_mensual) |->
               df_produccion_mensual[k].Produccion_kg[1]])
SumaCeldas == SumSeq([c \in 1..Len(Tabla.columnas) |-> SumaColumna(c)])

\* C6: the monthly totals add up to the sum of all the cells of the species
\* that parsed as numbers.  Read in the claim's favour: over the tables whose
\* columns are all month labels of the pattern (the values of other columns
\* are dropped by design).
C6_Conservacion ==
    (pc = "precios" /\ SoloMeses) => SumaTotales = SumaCeldas

\* what the code does give: conservation when, besides, no label is 'sept..'
ConservacionSinSept ==
    (pc = "precios" /\ SoloMeses
       /\ \A c \in 1..Len(Tabla.columnas) : Tabla.columnas[c] # sept07)
    => SumaTotales = SumaCeldas

\* the month a label stands for by the abbreviation table: (20yy, the key's month)
MesSegunTabla(l, it) == << 2000 + NumVal(SubSeq(l, Len(it[1]) + 1, Len(l))), it[2] >>

\* C7: a column labelled with an abbreviation of the table and a two-digit
\* year has its quantities summed into the total of that calendar month.
C7_EtiquetasDeMes ==
    (pc = "precios") =>
        \A c \in 1..Len(Tabla.columnas), it \in MESES_MAP_ABR :
            (EsEtiquetaDe(Tabla.columnas[c], it) /\ HayNumero(c))
            => /\ \E k \in 1..Len(df_produccion_mensual) :
                     df_produccion_mensual[k].Mes_anio = MesSegunTabla(Tabla.columnas[c], it)
               /\ TotalDe(MesSegunTabla(Tabla.columnas[c], it))
                  = SumSeq([d \in 1..Len(Tabla.columnas) |->
                       IF \E jt \in MESES_MAP_ABR :
                             /\ EsEtiquetaDe(Tabla.columnas[d], jt)
                             /\ MesSegunTabla(Tabla.columnas[d], jt)
                                = MesSegunTabla(Tabla.columnas[c], it)
                       THEN SumaColumna(d) ELSE 0])

\* The rule of C8 read on its own: separators out, a lone dash is 0, the
\* comma is the decimal mark; NaN for what is no number.  Cells with a dash
\* that are not a lone dash are outside the rule.
SinSeparadores(c) == LET Queda(x) == x # "." /\ x # " " IN SelectSeq(c, Queda)
ValorSegunRegla(c) ==
    LET t == SinSeparadores(c)
        comas == {k \in 1..Len(t) : t[k] = ","}
        cifras == {k \in 1..Len(t) : EsDigito(t[k])}
    IN  IF c = Guion THEN << 0 >>
        ELSE IF cifras = {} \/ Cardinality(comas) > 1
                \/ cifras \cup comas # 1..Len(t) THEN NaN
        ELSE IF comas = {} THEN << NumVal(t) * Escala >>
        ELSE LET p == CHOOSE k \in comas : TRUE
             IN  << NumVal(SubSeq(t, 1, p - 1)) * Escala
                    + NumVal(SubSeq(t, p + 1, Len(t))) * 10 ^ (DecMax - (Len(t) - p)) >>
DentroDeRegla(c) == c = Guion \/ \A k \in 1..Len(c) : c[k] # "-"

UnaCelda ==
    /\ Len(Tabla.columnas) = 1 /\ Tabla.columnas[1] \in {ene07, feb07}
    /\ Len(Tabla.filas) = 1 /\ Tabla.filas[1].especie = "Manzana"
    /\ DentroDeRegla(Tabla.filas[1].celdas[1])

HayFueraDePatron ==
    \E c \in 1..Len(Tabla.columnas) : ~EsEtiquetaDeMes(Tabla.columnas[c])
SumaPatron ==
    SumSeq([c \in 1..Len(Tabla.columnas) |->
               IF EsEtiquetaDeMes(Tabla.columnas[c]) THEN SumaColumna(c) ELSE 0])
SinSept == \A c \in 1..Len(Tabla.columnas) : Tabla.columnas[c] # sept07

\* C13: when some column label is not of the pattern (abbreviation of the
\* table, two-digit year), the production resolver does not raise and the
\* cells of that column are in no monthly total (the totals add up to the
\* cells of the columns of the pattern; September apart, see C7).
C13_FueraDePatron ==
    (HayFueraDePatron /\ Cargadas = Rango(DATA_SOURCES)
       /\ pc \in {"except", "precios"})
    => /\ pc # "except"
       /\ (SinSept => SumaTotales = SumaPatron)

\* what the code does give: a label whose first three characters are no key
\* of the table is dropped without raising
PrefijoSinMes(l) == MapMes(SubSeq(l, 1, Min(3, Len(l)))) = NaN
FueraDePatronSinPrefijo ==
    (Cargadas = Rango(DATA_SOURCES) /\ pc \in {"except", "precios"}
       /\ \A c \in 1..Len(Tabla.columnas) :
              EsEtiquetaDeMes(Tabla.columnas[c]) \/ PrefijoSinMes(Tabla.columnas[c]))
    => /\ pc # "except"
       /\ (SinSept => SumaTotales = SumaPatron)

\* ---- order of the view ----------------------------------------------------
\* the rows of a table are in ascending (month, region) order: months by
\* calendar, names as Python compares str, a null name after every name
EnOrden(filas) ==
    \A k \in 1..(Len(filas) - 1) :
        ~LexLt(ClaveMesDepto(filas[k + 1]), ClaveMesDepto(filas[k]))

Unidas == MergePrecios(wrapper_fuentes(fuentes.MEF_precios),
                       wrapper_fuentes(fuentes.MEF_establecimientos))
HayFechaMala == \E k \in 1..Len(Unidas) : FechaNoParseable(Unidas[k].fecha)
ConFecha(r) == ~FechaNoParseable(r.fecha)

\* C12: when a joined price observation has a timestamp that cannot be
\* parsed, the price resolver does not raise, and the monthly mean prices
\* are those of the remaining observations.
C12_FechasTolerantes ==
    (HayFechaMala /\ Cargadas = Rango(DATA_SOURCES) /\ pc \in {"except", "fusion"})
    => /\ pc # "except"
       /\ df_precios_mensual = PreciosMensual(SelectSeq(Unidas, ConFecha))

\* C16: the returned table has at most one row for each (Mes_anio,
\* Departamento) pair.
C16_ClaveUnica ==
    HayVista =>
        \A a, b \in 1..Len(Vista) :
            (Vista[a].Mes_anio = Vista[b].Mes_anio
             /\ Vista[a].Departamento = Vista[b].Departamento) => a = b

\* ---- cache ----------------------------------------------------------------
\* a stored result exists and less than the time-to-live has passed at time t
HayGuardadoReciente(t) ==
    /\ CACHE["data"] # None
    /\ CACHE["timestamp"] # None
    /\ t - CACHE["timestamp"][1] < CACHE_TTL_SECONDS

\* C14: a call of get_cached_vista_global() made while a stored result exists
\* and less than CACHE_TTL_SECONDS have passed since its timestamp returns
\* the stored result without invoking mediador(); any other call invokes
\* mediador() once, and the result it returns is stored with the time read at
\* the start of the call; nothing else writes the slot.
C14_Cache ==
    [][ /\ (pc = "idle" /\ pc' # "idle") =>
              /\ now' = reloj
              /\ IF HayGuardadoReciente(reloj)
                 THEN pc' = "responder" /\ df' = CACHE["data"] /\ CACHE' = CACHE
                 ELSE pc' = "cargar" /\ i' = 1 /\ CACHE' = CACHE
        /\ (pc' = "cargar" /\ pc # "cargar") => pc = "idle"
        /\ (pc # "idle") => now' = now
        /\ (pc' = "guardar") => (pc \in {"cargado", "fusion"} /\ df' # None)
        /\ (pc = "guardar") =>
              /\ CACHE' = [timestamp |-> <<now>>, data |-> df]
              /\ pc' = "responder" /\ df' = df
        /\ (CACHE' # CACHE) => pc = "guardar"
      ]_vars
\* a stored empty result, put there by a second run of mediador(), is
\* returned by a later call although the sources now hold data
C14_Witness ==
    /\ pc = "responder"
    /\ CACHE["data"] # None /\ df = CACHE["data"] /\ df[1].filas = <<>>
    /\ CACHE["timestamp"][1] >= CACHE_TTL_SECONDS
    /\ now > CACHE["timestamp"][1]
    /\ Disponibles = Rango(DATA_SOURCES)

\* C15: when mediador() raises, the call has stored nothing and the slot is
\* left as it was, and do_GET answers 500 with the error text.
C15_FalloSinGuardar ==
    [][ /\ (pc = "except") =>
              /\ excepcion # ""
              /\ CACHE["timestamp"] # <<now>>
              /\ CACHE' = CACHE
              /\ respuesta' = [status |-> 500, data |-> <<>>, warning |-> FALSE,
                               error |-> excepcion]
              /\ pc' = "idle"
        /\ (pc' = "except" /\ pc # "except") =>
              /\ pc \in {"cargado", "produccion", "precios"}
              /\ CACHE' = CACHE
      ]_vars
\* a run that raised after an earlier run had stored a table: the table is
\* still in the slot and the answer was 500
C15_Witness ==
    /\ pc = "idle"
    /\ respuesta.status = 500 /\ respuesta.error = "ValueError"
    /\ CACHE["data"] # None /\ CACHE["data"][1].tipo = "DataFrame"
    /\ CACHE["timestamp"] = <<0>>
====
